---- MODULE Spec2Model ----
(***************************************************************************)
(* A model of RawMemory<T> and Vector<T> of src/advanced-vector/vector.h,  *)
(* instantiated with an instrumented element type in the style of the Obj, *)
(* TestObj, WithCopy and ThrowObj probes of src/advanced-vector/main.cpp.  *)
(*                                                                         *)
(* Storage is a heap of blocks; a block is a sequence of slots and a slot  *)
(* is raw storage or holds an element object.  Every member function of    *)
(* Vector is one action that runs the whole function body, statement by    *)
(* statement, on a machine record (heap, counters, exception state).       *)
(***************************************************************************)
EXTENDS Integers, Sequences, FiniteSets, TLC

\* ------------------------------------------------------------------ bounds
MaxCap == 4        \* largest capacity of a vector that is the only one alive
MaxPair == MaxCap \div 2   \* largest capacity of each of two vectors alive together
NBlocks == 3       \* heap addresses 1..NBlocks (v's block, w's block, a new block)

\* ------------------------------------------------- constants of the probes
DefaultId == 0     \* Obj::id of a value-initialised element
MAGIC == 42        \* the id the tests give to an inserted element

Null == 0                      \* nullptr
Blocks == 1..NBlocks
Stack == NBlocks + 1           \* the frame that holds Emplace's local new_type
VecIds == {"v", "w"}

VARIABLES
    T,       \* traits of the element type: nothrow_move, copyable
    vec,     \* the Vector objects: alive, data_ (buffer_, capacity_), size_
    mem,     \* the heap: per block, whether allocated, and its slots
    last     \* what the last call was and how it went (observation only)

vars == <<T, vec, mem, last>>

\* ------------------------------------------------------------------- slots
\* A slot is raw (uninitialised) storage or holds a constructed object, which is
\* its id.  A moved-from object keeps its id and stays constructed, as with
\* Obj(Obj&&), which copies the id and leaves the source's alone.
Raw == -1
IsObj(s) == s # Raw

RawSlots(n) == [i \in 1..n |-> Raw]
FreeBlock == [used |-> FALSE, slots |-> <<>>]

\* RawMemory<T>: buffer_, capacity_
EmptyRaw == [buffer_ |-> Null, capacity_ |-> 0]
NoVec == [alive |-> FALSE, data_ |-> EmptyRaw, size_ |-> 0]

ZeroCnt == [def |-> 0, val |-> 0, copy |-> 0, move |-> 0,
            cassign |-> 0, massign |-> 0, dtor |-> 0]

\* The relocation rule: is_nothrow_move_constructible_v<T> || !is_copy_constructible_v<T>
UseMove == T.nothrow_move \/ ~T.copyable

\* ----------------------------------------------------------------- machine
\* mem: heap; cnt: the probe's counters for this call; k: the countdown of the
\* throwing step (the k-th step that may throw does, 0 = none); thrown/site: the
\* exception in flight and the statement that raised it; leaked: objects still
\* constructed in a block when it was deallocated; bad: undefined behaviour
\* (reading or destroying raw storage, constructing over an object, freeing a
\* free block); touched: the slots this call has moved from, assigned to or
\* destroyed; argOk: the argument was read before its slot was touched.
Start(k) == [mem |-> mem, cnt |-> ZeroCnt, k |-> k, thrown |-> FALSE, site |-> "none",
             at |-> 0, leaked |-> 0, bad |-> FALSE, touched |-> {}, argOk |-> TRUE]

SlotAt(m, b, i) == m.mem[b].slots[i + 1]

Writable(m, b, i) ==
    /\ b \in DOMAIN m.mem
    /\ m.mem[b].used
    /\ i + 1 \in DOMAIN m.mem[b].slots

Readable(m, b, i) == Writable(m, b, i) /\ IsObj(SlotAt(m, b, i))

\* an exception leaves the constructor or assignment of the element at index i
Throw(m, site, i) == [m EXCEPT !.thrown = TRUE, !.k = 0, !.site = site, !.at = i]
Undefined(m) == [m EXCEPT !.bad = TRUE]
Touch(m, b, i) == IF m.thrown THEN m ELSE [m EXCEPT !.touched = @ \cup {<<b, i>>}]

\* placement new: constructs an object with `id` in slot i of block b; counter c
ConstructAt(m, b, i, id, c, fallible, site) ==
    IF m.thrown THEN m
    ELSE IF fallible /\ m.k = 1 THEN Throw(m, site, i)
    ELSE IF ~Writable(m, b, i) \/ IsObj(SlotAt(m, b, i)) THEN Undefined(m)
    ELSE [m EXCEPT !.mem[b].slots[i + 1] = id,
                   !.cnt[c] = @ + 1,
                   !.k = IF fallible /\ @ > 0 THEN @ - 1 ELSE @]

\* T(const T&)
CopyConstruct(m, sb, si, db, di, site) ==
    IF m.thrown THEN m
    ELSE IF ~Readable(m, sb, si) THEN Undefined(m)
    ELSE ConstructAt(m, db, di, SlotAt(m, sb, si), "copy", TRUE, site)

\* T(T&&): may throw only when the move constructor is not noexcept
MoveConstruct(m, sb, si, db, di, site) ==
    IF m.thrown THEN m
    ELSE IF ~Readable(m, sb, si) THEN Undefined(m)
    ELSE Touch(ConstructAt(m, db, di, SlotAt(m, sb, si), "move", ~T.nothrow_move, site),
               sb, si)

\* T()
ValueConstruct(m, b, i, site) == ConstructAt(m, b, i, DefaultId, "def", TRUE, site)

\* ~T(), which runs whether or not an exception is in flight
DestroyAt(m, b, i) ==
    IF ~Readable(m, b, i) THEN Undefined(m)
    ELSE [m EXCEPT !.mem[b].slots[i + 1] = Raw,
                   !.cnt.dtor = @ + 1,
                   !.touched = @ \cup {<<b, i>>}]

\* T& operator=(const T&): counts nothing on self-assignment
CopyAssign(m, sb, si, db, di, site) ==
    IF m.thrown THEN m
    ELSE IF m.k = 1 THEN Throw(m, site, di)
    ELSE IF ~Readable(m, sb, si) \/ ~Readable(m, db, di) THEN Undefined(m)
    ELSE IF sb = db /\ si = di THEN [m EXCEPT !.k = IF @ > 0 THEN @ - 1 ELSE @]
    ELSE [m EXCEPT !.mem[db].slots[di + 1] = SlotAt(m, sb, si),
                   !.cnt.cassign = @ + 1,
                   !.k = IF @ > 0 THEN @ - 1 ELSE @,
                   !.touched = @ \cup {<<db, di>>}]

\* T& operator=(T&&) noexcept
MoveAssign(m, sb, si, db, di) ==
    IF m.thrown THEN m
    ELSE IF ~Readable(m, sb, si) \/ ~Readable(m, db, di) THEN Undefined(m)
    ELSE [m EXCEPT !.mem[db].slots[di + 1] = SlotAt(m, sb, si),
                   !.cnt.massign = @ + 1,
                   !.touched = @ \cup {<<sb, si>>, <<db, di>>}]

\* ------------------------------------------------- <memory> and <algorithm>
RECURSIVE DestroyN(_, _, _, _)
\* std::destroy_n(first, n)
DestroyN(m, b, o, n) ==
    IF n <= 0 THEN m ELSE DestroyN(DestroyAt(m, b, o), b, o + 1, n - 1)

\* faulty variant: the old elements are destroyed although an exception is in flight
DestroyAlways(m, b, o, n) == DestroyN(m, b, o, n)

\* a statement std::destroy_n(first, n), which an exception in flight skips
DestroyAll(m, b, o, n) == IF m.thrown THEN m ELSE DestroyN(m, b, o, n)

\* a statement std::destroy_at(p), which an exception in flight skips
DestroyOne(m, b, i) == IF m.thrown THEN m ELSE DestroyAt(m, b, i)

RECURSIVE UninitCopyFrom(_, _, _, _, _, _, _, _)
RECURSIVE UninitMoveFrom(_, _, _, _, _, _, _, _)
RECURSIVE UninitValueFrom(_, _, _, _, _, _)

\* faulty variant: a copy that throws leaves the elements built so far in place
UninitCopyNextNoRollback(m, sb, so, n, db, do, j, site) ==
    IF m.thrown THEN m ELSE UninitCopyFrom(m, sb, so, n, db, do, j + 1, site)

\* after the construction of element j: on a throw the j elements built so far are
\* destroyed and the exception goes on; otherwise the loop goes on
UninitCopyNext(m, sb, so, n, db, do, j, site) ==
    IF m.thrown THEN DestroyN(m, db, do, j)
    ELSE UninitCopyFrom(m, sb, so, n, db, do, j + 1, site)

UninitCopyFrom(m, sb, so, n, db, do, j, site) ==
    IF j >= n THEN m
    ELSE UninitCopyNext(CopyConstruct(m, sb, so + j, db, do + j, site),
                        sb, so, n, db, do, j, site)

\* std::uninitialized_copy_n(first, n, d_first)
UninitCopyN(m, sb, so, n, db, do, site) ==
    IF m.thrown THEN m ELSE UninitCopyFrom(m, sb, so, n, db, do, 0, site)

UninitMoveNext(m, sb, so, n, db, do, j, site) ==
    IF m.thrown THEN DestroyN(m, db, do, j)
    ELSE UninitMoveFrom(m, sb, so, n, db, do, j + 1, site)

UninitMoveFrom(m, sb, so, n, db, do, j, site) ==
    IF j >= n THEN m
    ELSE UninitMoveNext(MoveConstruct(m, sb, so + j, db, do + j, site),
                        sb, so, n, db, do, j, site)

\* std::uninitialized_move_n(first, n, d_first)
UninitMoveN(m, sb, so, n, db, do, site) ==
    IF m.thrown THEN m ELSE UninitMoveFrom(m, sb, so, n, db, do, 0, site)

UninitValueNext(m, b, o, n, j, site) ==
    IF m.thrown THEN DestroyN(m, b, o, j)
    ELSE UninitValueFrom(m, b, o, n, j + 1, site)

UninitValueFrom(m, b, o, n, j, site) ==
    IF j >= n THEN m
    ELSE UninitValueNext(ValueConstruct(m, b, o + j, site), b, o, n, j, site)

\* std::uninitialized_value_construct_n(first, n)
UninitValueConstructN(m, b, o, n, site) ==
    IF m.thrown THEN m ELSE UninitValueFrom(m, b, o, n, 0, site)

RECURSIVE CopyRange(_, _, _, _, _, _)
\* std::copy(first, last, d_first) and std::copy_n: copy-assigns front to back
CopyRange(m, sb, first, lastx, db, dfirst) ==
    IF first >= lastx THEN m
    ELSE CopyRange(CopyAssign(m, sb, first, db, dfirst, "assign"),
                   sb, first + 1, lastx, db, dfirst + 1)

RECURSIVE MoveRange(_, _, _, _, _)
\* std::move(first, last, d_first): move-assigns front to back
MoveRange(m, b, first, lastx, dfirst) ==
    IF first >= lastx THEN m
    ELSE MoveRange(MoveAssign(m, b, first, b, dfirst), b, first + 1, lastx, dfirst + 1)

RECURSIVE MoveBackward(_, _, _, _, _)
\* std::move_backward(first, last, d_last): move-assigns back to front
MoveBackward(m, b, first, lastx, dlast) ==
    IF first >= lastx THEN m
    ELSE MoveBackward(MoveAssign(m, b, lastx - 1, b, dlast - 1),
                      b, first, lastx - 1, dlast - 1)

\* -------------------------------------------------------------- RawMemory<T>
\* the address operator new returns: the lowest free one
FreeAddr(m) ==
    CHOOSE b \in Blocks : ~m.mem[b].used /\ \A c \in Blocks : c < b => m.mem[c].used

\* RawMemory::Allocate(n): the heap after it, and the pointer it returns
Allocate(m, n) ==
    IF n = 0 THEN m
    ELSE [m EXCEPT !.mem[FreeAddr(m)] = [used |-> TRUE, slots |-> RawSlots(n)]]

AllocAddr(m, n) == IF n = 0 THEN Null ELSE FreeAddr(m)

\* RawMemory::RawMemory(size_t capacity)
RawMemoryCtor(m, capacity) == [buffer_ |-> AllocAddr(m, capacity), capacity_ |-> capacity]

Objects(slots) == Cardinality({i \in DOMAIN slots : IsObj(slots[i])})

\* RawMemory::Deallocate(buf)
Deallocate(m, buf) ==
    IF buf = Null THEN m
    ELSE IF ~m.mem[buf].used THEN Undefined(m)
    ELSE [m EXCEPT !.mem[buf] = FreeBlock,
                   !.leaked = @ + Objects(m.mem[buf].slots)]

\* RawMemory::~RawMemory()
RawMemoryDtor(m, r) == Deallocate(m, r.buffer_)

\* RawMemory::Swap(other): a is *this afterwards, b is other afterwards
RawSwap(this, other) ==
    [a |-> [buffer_ |-> other.buffer_, capacity_ |-> other.capacity_],
     b |-> [buffer_ |-> this.buffer_, capacity_ |-> this.capacity_]]

\* faulty variant: a move constructor that leaves other its capacity
RawMoveCtorKeepCapacity(other) ==
    [a |-> [buffer_ |-> other.buffer_, capacity_ |-> other.capacity_],
     b |-> [buffer_ |-> Null, capacity_ |-> other.capacity_]]

\* RawMemory::RawMemory(RawMemory&& other): a is the new object, b is other afterwards
RawMoveCtor(other) ==
    [a |-> [buffer_ |-> other.buffer_, capacity_ |-> other.capacity_],
     b |-> [buffer_ |-> Null, capacity_ |-> 0]]

\* faulty variant: a move assignment that takes rhs's block and leaves rhs empty
RawMoveAssignTransfer(this, rhs) ==
    [a |-> [buffer_ |-> rhs.buffer_, capacity_ |-> rhs.capacity_],
     b |-> [buffer_ |-> Null, capacity_ |-> 0]]

\* RawMemory::operator=(RawMemory&& rhs)
RawMoveAssign(this, rhs) == RawSwap(this, rhs)

\* ----------------------------------------------------------------- Vector<T>
Buf(v) == v.data_.buffer_
Cap(v) == v.data_.capacity_

\* the argument of an insertion: an lvalue ("copy") or rvalue ("move") of T outside
\* the vector, constructor arguments ("val"), or a reference to element idx of the
\* vector itself, passed as an lvalue ("self_copy") or through std::move ("self_move")
ArgIntact(m, v, arg) ==
    /\ Readable(m, Buf(v), arg.idx)
    /\ <<Buf(v), arg.idx>> \notin m.touched

\* the read of an argument that refers into the vector
ArgRead(m, v, arg) ==
    IF m.thrown THEN m ELSE [m EXCEPT !.argOk = @ /\ ArgIntact(m, v, arg)]

\* new (db + di) T(std::forward<Args>(args)...)
NewFromArg(m, arg, v, db, di) ==
    CASE arg.kind = "copy" -> ConstructAt(m, db, di, arg.id, "copy", TRUE, "new_element")
      [] arg.kind = "move" ->
            ConstructAt(m, db, di, arg.id, "move", ~T.nothrow_move, "new_element")
      [] arg.kind = "val" -> ConstructAt(m, db, di, arg.id, "val", TRUE, "new_element")
      [] arg.kind = "self_copy" ->
            CopyConstruct(ArgRead(m, v, arg), Buf(v), arg.idx, db, di, "new_element")
      [] arg.kind = "self_move" ->
            MoveConstruct(ArgRead(m, v, arg), Buf(v), arg.idx, db, di, "new_element")

\* faulty variant: growth by one slot
GrownByOne(size) == size + 1

\* the growth policy: size_ == 0 ? 1 : size_ * 2
GrownCapacity(size) == IF size = 0 THEN 1 ELSE size * 2

\* faulty variant: relocation that copies whatever the traits of T
RelocateByCopy(m, sb, so, n, db, do) == UninitCopyN(m, sb, so, n, db, do, "relocate")

\* the relocation of n elements: uninitialized_move_n or uninitialized_copy_n
Relocate(m, sb, so, n, db, do) ==
    IF UseMove THEN UninitMoveN(m, sb, so, n, db, do, "relocate")
    ELSE UninitCopyN(m, sb, so, n, db, do, "relocate")

\* faulty variant: a reallocation that throws does not release new_data
AdoptKeepsBlock(m, v, new_data, size) ==
    IF m.thrown THEN [m |-> m, v |-> v]
    ELSE [m |-> RawMemoryDtor(m, RawSwap(v.data_, new_data).b),
          v |-> [v EXCEPT !.data_ = RawSwap(v.data_, new_data).a, !.size_ = size]]

\* the end of a reallocation: data_.Swap(new_data), size_ becomes size, and
\* new_data goes out of scope; on an exception only the latter happens
Adopt(m, v, new_data, size) ==
    IF m.thrown THEN [m |-> RawMemoryDtor(m, new_data), v |-> v]
    ELSE [m |-> RawMemoryDtor(m, RawSwap(v.data_, new_data).b),
          v |-> [v EXCEPT !.data_ = RawSwap(v.data_, new_data).a, !.size_ = size]]

\* the end of a call that works in place: size_ becomes size unless it threw
Sized(m, v, size) ==
    IF m.thrown THEN [m |-> m, v |-> v] ELSE [m |-> m, v |-> [v EXCEPT !.size_ = size]]

\* Reserve beyond the capacity, new_data being RawMemory<T> new_data(new_capacity)
ReserveGrow(m, v, new_data) ==
    Adopt(DestroyAll(Relocate(Allocate(m, new_data.capacity_),
                              Buf(v), 0, v.size_, new_data.buffer_, 0),
                     Buf(v), 0, v.size_),
          v, new_data, v.size_)

\* faulty variant: Reserve that grows to at least twice the capacity
ReserveDoubling(m, v, new_capacity) ==
    IF new_capacity <= Cap(v) THEN [m |-> m, v |-> v]
    ELSE ReserveGrow(m, v, RawMemoryCtor(m, IF new_capacity >= 2 * Cap(v)
                                            THEN new_capacity ELSE 2 * Cap(v)))

\* faulty variant: Reserve that reallocates to any capacity that holds the elements
ReserveShrinks(m, v, new_capacity) ==
    IF new_capacity = Cap(v) \/ new_capacity < v.size_ THEN [m |-> m, v |-> v]
    ELSE ReserveGrow(m, v, RawMemoryCtor(m, new_capacity))

\* Vector::Reserve(new_capacity)
ReserveOp(m, v, new_capacity) ==
    IF new_capacity <= Cap(v) THEN [m |-> m, v |-> v]
    ELSE ReserveGrow(m, v, RawMemoryCtor(m, new_capacity))

\* faulty variant: the elements are relocated before the new one is constructed
PushBackGrowLate(m, v, arg, new_data) ==
    Adopt(DestroyAll(NewFromArg(Relocate(Allocate(m, new_data.capacity_),
                                         Buf(v), 0, v.size_, new_data.buffer_, 0),
                                arg, v, new_data.buffer_, v.size_),
                     Buf(v), 0, v.size_),
          v, new_data, v.size_ + 1)

\* PushBack with data_.Capacity() == size_
PushBackGrow(m, v, arg, new_data) ==
    Adopt(DestroyAll(Relocate(NewFromArg(Allocate(m, new_data.capacity_),
                                         arg, v, new_data.buffer_, v.size_),
                              Buf(v), 0, v.size_, new_data.buffer_, 0),
                     Buf(v), 0, v.size_),
          v, new_data, v.size_ + 1)

\* Vector::PushBack(S&& value)
PushBackOp(m, v, arg) ==
    IF Cap(v) = v.size_
    THEN PushBackGrow(m, v, arg, RawMemoryCtor(m, GrownCapacity(v.size_)))
    ELSE Sized(NewFromArg(m, arg, v, Buf(v), v.size_), v, v.size_ + 1)

\* EmplaceBack with data_.Capacity() == size_
EmplaceBackGrow(m, v, arg, new_data) ==
    Adopt(DestroyAll(Relocate(NewFromArg(Allocate(m, new_data.capacity_),
                                         arg, v, new_data.buffer_, v.size_),
                              Buf(v), 0, v.size_, new_data.buffer_, 0),
                     Buf(v), 0, v.size_),
          v, new_data, v.size_ + 1)

\* Vector::EmplaceBack(Args&&... args)
EmplaceBackOp(m, v, arg) ==
    IF Cap(v) = v.size_
    THEN EmplaceBackGrow(m, v, arg, RawMemoryCtor(m, GrownCapacity(v.size_)))
    ELSE Sized(NewFromArg(m, arg, v, Buf(v), v.size_), v, v.size_ + 1)

\* faulty variant: growth in Emplace that relocates the suffix before the prefix
EmplaceGrowSuffixFirst(m, v, pos, arg, new_data) ==
    Adopt(DestroyAll(Relocate(Relocate(NewFromArg(Allocate(m, new_data.capacity_),
                                                  arg, v, new_data.buffer_, pos),
                                       Buf(v), pos, v.size_ - pos,
                                       new_data.buffer_, pos + 1),
                              Buf(v), 0, pos, new_data.buffer_, 0),
                     Buf(v), 0, v.size_),
          v, new_data, v.size_ + 1)

\* Emplace with data_.Capacity() == size_: the new element, the prefix, the suffix
EmplaceGrow(m, v, pos, arg, new_data) ==
    Adopt(DestroyAll(Relocate(Relocate(NewFromArg(Allocate(m, new_data.capacity_),
                                                  arg, v, new_data.buffer_, pos),
                                       Buf(v), 0, pos, new_data.buffer_, 0),
                              Buf(v), pos, v.size_ - pos, new_data.buffer_, pos + 1),
                     Buf(v), 0, v.size_),
          v, new_data, v.size_ + 1)

\* the end of the scope of Emplace's local new_type, which m0 did or did not build
LeaveScope(m, m0) == IF m0.thrown THEN m ELSE DestroyAt(m, Stack, 0)

\* faulty variant: new_type is copy-assigned into the slot at pos
EmplaceShiftAssignCopy(m, v, pos) ==
    Sized(LeaveScope(CopyAssign(MoveBackward(MoveConstruct(m, Buf(v), v.size_ - 1,
                                                           Buf(v), v.size_, "tail"),
                                             Buf(v), pos, v.size_ - 1, v.size_),
                                Stack, 0, Buf(v), pos, "assign"),
                     m),
          v, v.size_ + 1)

\* faulty variant: the trailing slot is built as a copy of the last element
EmplaceShiftCopyTail(m, v, pos) ==
    Sized(LeaveScope(MoveAssign(MoveBackward(CopyConstruct(m, Buf(v), v.size_ - 1,
                                                           Buf(v), v.size_, "tail"),
                                             Buf(v), pos, v.size_ - 1, v.size_),
                                Stack, 0, Buf(v), pos),
                     m),
          v, v.size_ + 1)

\* Emplace with spare capacity and pos != end(), after T new_type(args...) in Stack
EmplaceShiftFrom(m, v, pos) ==
    Sized(LeaveScope(MoveAssign(MoveBackward(MoveConstruct(m, Buf(v), v.size_ - 1,
                                                           Buf(v), v.size_, "tail"),
                                             Buf(v), pos, v.size_ - 1, v.size_),
                                Stack, 0, Buf(v), pos),
                     m),
          v, v.size_ + 1)

\* faulty variant: the last element is moved to the tail before new_type is built
EmplaceShiftLate(m, v, pos, arg) ==
    Sized(DestroyOne(MoveAssign(MoveBackward(NewFromArg(MoveConstruct(m, Buf(v),
                                                            v.size_ - 1, Buf(v),
                                                            v.size_, "tail"),
                                                        arg, v, Stack, 0),
                                             Buf(v), pos, v.size_ - 1, v.size_),
                                Stack, 0, Buf(v), pos),
                     Stack, 0),
          v, v.size_ + 1)

\* Emplace with spare capacity and pos != end()
EmplaceShift(m, v, pos, arg) == EmplaceShiftFrom(NewFromArg(m, arg, v, Stack, 0), v, pos)

\* faulty variant: Emplace at end() that builds new_type and moves it into the
\* trailing slot
EmplaceAtEndFrom(m, v) ==
    Sized(LeaveScope(MoveConstruct(m, Stack, 0, Buf(v), v.size_, "tail"), m),
          v, v.size_ + 1)

EmplaceAtEndViaTemp(m, v, arg) == EmplaceAtEndFrom(NewFromArg(m, arg, v, Stack, 0), v)

\* Emplace with spare capacity and pos == end()
EmplaceAtEnd(m, v, arg) == Sized(NewFromArg(m, arg, v, Buf(v), v.size_), v, v.size_ + 1)

\* Vector::Emplace(pos, Args&&... args); pos is the offset of the iterator
EmplaceOp(m, v, pos, arg) ==
    IF Cap(v) = v.size_
    THEN EmplaceGrow(m, v, pos, arg, RawMemoryCtor(m, GrownCapacity(v.size_)))
    ELSE IF pos # v.size_ THEN EmplaceShift(m, v, pos, arg)
    ELSE EmplaceAtEnd(m, v, arg)

\* Vector::Insert(pos, S&& value)
InsertOp(m, v, pos, arg) == EmplaceOp(m, v, pos, arg)

\* faulty variant: Erase that shifts by move assignment whatever the traits of T
EraseShiftByMove(m, v, pos) == MoveRange(m, Buf(v), pos + 1, v.size_, pos)

\* the shift of Erase: std::move or std::copy of [pos + 1, end) to pos
EraseShift(m, v, pos) ==
    IF UseMove THEN MoveRange(m, Buf(v), pos + 1, v.size_, pos)
    ELSE CopyRange(m, Buf(v), pos + 1, v.size_, Buf(v), pos)

\* Vector::Erase(pos)
EraseOp(m, v, pos) ==
    Sized(DestroyOne(EraseShift(m, v, pos), Buf(v), v.size_ - 1), v, v.size_ - 1)

\* Resize to more: after Reserve(new_size), which left r
ResizeGrow(r, old_size, new_size) ==
    Sized(UninitValueConstructN(r.m, Buf(r.v), old_size, new_size - old_size,
                                "value_construct"),
          r.v, new_size)

\* faulty variant: Resize that shrinks without destroying the excess elements
ResizeKeep(m, v, new_size) ==
    IF new_size > v.size_ THEN ResizeGrow(ReserveOp(m, v, new_size), v.size_, new_size)
    ELSE Sized(m, v, new_size)

\* Vector::Resize(new_size)
ResizeOp(m, v, new_size) ==
    IF new_size > v.size_ THEN ResizeGrow(ReserveOp(m, v, new_size), v.size_, new_size)
    ELSE Sized(DestroyN(m, Buf(v), new_size, v.size_ - new_size), v, new_size)

\* faulty variant: PopBack that does not destroy the element
PopBackKeep(m, v) == Sized(m, v, v.size_ - 1)

\* faulty variant: PopBack that destroys the first element
PopBackFront(m, v) == Sized(DestroyAt(m, Buf(v), 0), v, v.size_ - 1)

\* Vector::PopBack()
PopBackOp(m, v) == Sized(DestroyAt(m, Buf(v), v.size_ - 1), v, v.size_ - 1)

\* Vector::Swap(other): a is *this afterwards, b is other afterwards
SwapOp(this, other) ==
    [a |-> [this EXCEPT !.data_ = RawSwap(this.data_, other.data_).a,
                        !.size_ = other.size_],
     b |-> [other EXCEPT !.data_ = RawSwap(this.data_, other.data_).b,
                         !.size_ = this.size_]]

\* Vector::Vector()
DefaultCtorOp == [alive |-> TRUE, data_ |-> EmptyRaw, size_ |-> 0]

\* the end of a constructor: the object exists, or its member data_ is destroyed
Constructed(m, data, size) ==
    IF m.thrown THEN [m |-> RawMemoryDtor(m, data), v |-> NoVec]
    ELSE [m |-> m, v |-> [alive |-> TRUE, data_ |-> data, size_ |-> size]]

SizedCtorWith(m, data, size) ==
    Constructed(UninitValueConstructN(Allocate(m, data.capacity_), data.buffer_, 0, size,
                                      "value_construct"),
                data, size)

\* faulty variant: Vector(size) that allocates one slot more than it fills
SizedCtorSpare(m, size) == SizedCtorWith(m, RawMemoryCtor(m, size + 1), size)

\* Vector::Vector(size_t size)
SizedCtorOp(m, size) == SizedCtorWith(m, RawMemoryCtor(m, size), size)

CopyCtorWith(m, data, other) ==
    Constructed(UninitCopyN(Allocate(m, other.size_), Buf(other), 0, other.size_,
                            data.buffer_, 0, "copy_construct"),
                data, other.size_)

\* faulty variant: a copy that shares the block of the source
CopyCtorShallow(m, other) ==
    [m |-> m, v |-> [alive |-> TRUE, data_ |-> other.data_, size_ |-> other.size_]]

\* Vector::Vector(const Vector& other)
CopyCtorOp(m, other) == CopyCtorWith(m, RawMemoryCtor(m, other.size_), other)

\* faulty variant: a move constructor that leaves the size of the source
MoveCtorKeepSize(other) ==
    [a |-> [alive |-> TRUE, data_ |-> RawMoveCtor(other.data_).a, size_ |-> other.size_],
     b |-> [other EXCEPT !.data_ = RawMoveCtor(other.data_).b]]

\* Vector::Vector(Vector&& other): a is the new vector, b is other afterwards
MoveCtorOp(other) ==
    [a |-> [alive |-> TRUE, data_ |-> RawMoveCtor(other.data_).a, size_ |-> other.size_],
     b |-> [other EXCEPT !.data_ = RawMoveCtor(other.data_).b, !.size_ = 0]]

\* faulty variant: a destructor that releases the block and destroys no element
DtorReleaseOnly(m, v) == RawMemoryDtor(m, v.data_)

\* Vector::~Vector()
DtorOp(m, v) == RawMemoryDtor(DestroyN(m, Buf(v), 0, v.size_), v.data_)

\* copy assignment with rhs.size_ > data_.Capacity(), c being Vector new_vec(rhs):
\* Swap(new_vec), and new_vec is destroyed
CopyAndSwap(this, c) ==
    IF c.m.thrown THEN [m |-> c.m, v |-> this]
    ELSE [m |-> DtorOp(c.m, SwapOp(this, c.v).b), v |-> SwapOp(this, c.v).a]

\* faulty variant: copy assignment in place that sets size_ before it copies
AssignLongerEarly(m, this, rhs) ==
    [m |-> UninitCopyN(CopyRange(m, Buf(rhs), 0, this.size_, Buf(this), 0),
                       Buf(rhs), this.size_, rhs.size_ - this.size_,
                       Buf(this), this.size_, "copy_construct"),
     v |-> [this EXCEPT !.size_ = rhs.size_]]

\* faulty variant: copy assignment in place that destroys the elements and copies
\* all of rhs into raw storage
AssignLongerRebuild(m, this, rhs) ==
    Sized(UninitCopyN(DestroyAll(m, Buf(this), 0, this.size_),
                      Buf(rhs), 0, rhs.size_, Buf(this), 0, "copy_construct"),
          this, rhs.size_)

\* copy assignment in place from a longer rhs
AssignLonger(m, this, rhs) ==
    Sized(UninitCopyN(CopyRange(m, Buf(rhs), 0, this.size_, Buf(this), 0),
                      Buf(rhs), this.size_, rhs.size_ - this.size_,
                      Buf(this), this.size_, "copy_construct"),
          this, rhs.size_)

\* copy assignment in place from an rhs that is not longer
AssignShorter(m, this, rhs) ==
    Sized(DestroyAll(CopyRange(m, Buf(rhs), 0, rhs.size_, Buf(this), 0),
                     Buf(this), rhs.size_, this.size_ - rhs.size_),
          this, rhs.size_)

\* faulty variant: copy assignment that always copies and swaps
CopyAssignBySwap(m, this, rhs) == CopyAndSwap(this, CopyCtorOp(m, rhs))

\* Vector::operator=(const Vector& rhs); v is *this afterwards
CopyAssignOp(m, this, rhs) ==
    IF rhs.size_ > Cap(this) THEN CopyAndSwap(this, CopyCtorOp(m, rhs))
    ELSE IF rhs.size_ > this.size_ THEN AssignLonger(m, this, rhs)
    ELSE AssignShorter(m, this, rhs)

\* faulty variant: move assignment that takes rhs's block and leaves rhs empty
MoveAssignTransfer(this, rhs, same) ==
    [a |-> [this EXCEPT !.data_ = rhs.data_, !.size_ = rhs.size_],
     b |-> [rhs EXCEPT !.data_ = EmptyRaw, !.size_ = 0]]

\* Vector::operator=(Vector&& rhs): a is *this afterwards, b is rhs afterwards
MoveAssignOp(this, rhs, same) ==
    IF ~same THEN SwapOp(this, rhs) ELSE [a |-> this, b |-> rhs]

\* ------------------------------------------------------------------ inputs
NoArg == [kind |-> "none", id |-> 0, idx |-> 0]

\* the arguments an insertion into v can be called with
ArgsOf(v) ==
    {[kind |-> k, id |-> MAGIC, idx |-> 0] :
        k \in {"move", "val"} \cup (IF T.copyable THEN {"copy"} ELSE {})}
    \cup {[kind |-> k, id |-> 0, idx |-> i] :
        k \in {"self_move"} \cup (IF T.copyable THEN {"self_copy"} ELSE {}),
        i \in 0..(v.size_ - 1)}

\* an iterator is a pointer: a block and an offset in it
IteratorAt(v, off) == [buf |-> Buf(v), off |-> off]

\* what the record holds for a call that returns no iterator
NoIter == [buf |-> Null, off |-> 0]

Obs(op, x, y, pos, n, arg, m) ==
    [op |-> op, x |-> x, y |-> y, pos |-> pos, n |-> n, arg |-> arg,
     thrown |-> m.thrown, site |-> m.site, at |-> m.at, cnt |-> m.cnt,
     leaked |-> m.leaked, bad |-> m.bad, argOk |-> m.argOk, was |-> vec, heap |-> mem,
     ret |-> NoIter]

Quiet == Start(0)

\* the record of a harness that has made no call since it reset its counters
NoCall == Obs("none", "v", "v", 0, 0, NoArg, Quiet)

\* the harness makes one call at a time: it resets the counters, calls, and reads
Idle == last.op = "none"

\* the bounds of the model: v up to MaxCap while w is not alive, and both up to
\* MaxPair while w is
Bounded(f) ==
    /\ Cap(f["v"]) <= MaxCap
    /\ Cap(f["w"]) <= MaxPair
    /\ f["w"].alive => Cap(f["v"]) <= MaxPair

\* -------------------------------------------------------------------- state
Init ==
    /\ T \in {[nothrow_move |-> TRUE, copyable |-> TRUE],
              [nothrow_move |-> FALSE, copyable |-> TRUE],
              [nothrow_move |-> TRUE, copyable |-> FALSE]}
    /\ vec = [x \in VecIds |-> NoVec]
    /\ mem = [b \in Blocks \cup {Stack} |->
                IF b = Stack THEN [used |-> TRUE, slots |-> RawSlots(1)] ELSE FreeBlock]
    /\ last = NoCall

\* ------------------------------------------------------------------ actions
\* what a call leaves: r.v in vector x, the heap r.m.mem, and the harness's record
Outcome(x, r, obs) ==
    /\ vec' = [vec EXCEPT ![x] = r.v]
    /\ mem' = r.m.mem
    /\ last' = obs
    /\ Bounded(vec')
    /\ UNCHANGED T

\* the outcome of a call that touches two vectors and no element
Exchange(x, y, r, op) ==
    /\ vec' = [vec EXCEPT ![y] = r.b, ![x] = r.a]
    /\ last' = Obs(op, x, y, 0, 0, NoArg, Quiet)
    /\ Bounded(vec')
    /\ UNCHANGED <<T, mem>>

\* Obj::ResetCounters(): the harness has read the counters and clears them
ResetCounters ==
    /\ ~Idle
    /\ last' = NoCall
    /\ UNCHANGED <<T, vec, mem>>

DefaultCtor(x) ==
    /\ Idle /\ ~vec[x].alive
    /\ vec' = [vec EXCEPT ![x] = DefaultCtorOp]
    /\ Bounded(vec')
    /\ last' = Obs("DefaultCtor", x, x, 0, 0, NoArg, Quiet)
    /\ UNCHANGED <<T, mem>>

SizedCtorDone(x, n, r) == Outcome(x, r, Obs("SizedCtor", x, x, 0, n, NoArg, r.m))

SizedCtor(x, n, k) ==
    /\ Idle /\ ~vec[x].alive
    /\ SizedCtorDone(x, n, SizedCtorOp(Start(k), n))

CopyCtorDone(x, y, r) == Outcome(x, r, Obs("CopyCtor", x, y, 0, 0, NoArg, r.m))

CopyCtor(x, y, k) ==
    /\ Idle /\ ~vec[x].alive /\ vec[y].alive /\ T.copyable
    /\ CopyCtorDone(x, y, CopyCtorOp(Start(k), vec[y]))

MoveCtor(x, y) ==
    /\ Idle /\ ~vec[x].alive /\ vec[y].alive
    /\ Exchange(x, y, MoveCtorOp(vec[y]), "MoveCtor")

DtorDone(x, m) ==
    /\ mem' = m.mem
    /\ last' = Obs("Dtor", x, x, 0, 0, NoArg, m)
    /\ vec' = [vec EXCEPT ![x] = NoVec]
    /\ UNCHANGED T

Dtor(x) ==
    /\ Idle /\ vec[x].alive
    /\ DtorDone(x, DtorOp(Start(0), vec[x]))

CopyAssignDone(x, y, r) == Outcome(x, r, Obs("CopyAssign", x, y, 0, 0, NoArg, r.m))

CopyAssignment(x, y, k) ==
    /\ Idle /\ vec[x].alive /\ vec[y].alive /\ T.copyable
    /\ CopyAssignDone(x, y, CopyAssignOp(Start(k), vec[x], vec[y]))

MoveAssignment(x, y) ==
    /\ Idle /\ vec[x].alive /\ vec[y].alive
    /\ Exchange(x, y, MoveAssignOp(vec[x], vec[y], x = y), "MoveAssign")

Swap(x, y) ==
    /\ Idle /\ vec[x].alive /\ vec[y].alive
    /\ Exchange(x, y, SwapOp(vec[x], vec[y]), "Swap")

ReserveDone(x, n, r) == Outcome(x, r, Obs("Reserve", x, x, 0, n, NoArg, r.m))

Reserve(x, n, k) ==
    /\ Idle /\ vec[x].alive
    /\ ReserveDone(x, n, ReserveOp(Start(k), vec[x], n))

ResizeDone(x, n, r) == Outcome(x, r, Obs("Resize", x, x, 0, n, NoArg, r.m))

Resize(x, n, k) ==
    /\ Idle /\ vec[x].alive
    /\ ResizeDone(x, n, ResizeOp(Start(k), vec[x], n))

\* an insertion is within the bounds when the block it may allocate is
Fits(x) ==
    Cap(vec[x]) = vec[x].size_ =>
        Bounded([vec EXCEPT ![x].data_.capacity_ = GrownCapacity(vec[x].size_)])

InsertionDone(op, x, pos, arg, r) == Outcome(x, r, Obs(op, x, x, pos, 0, arg, r.m))

PushBack(x, arg, k) ==
    /\ Idle /\ vec[x].alive /\ Fits(x)
    /\ InsertionDone("PushBack", x, vec[x].size_, arg, PushBackOp(Start(k), vec[x], arg))

\* the record of a call that returned iterator it, unless it threw
Returned(obs, r, it) == IF r.m.thrown THEN obs ELSE [obs EXCEPT !.ret = it]

\* EmplaceBack: return data_[size_ - 1]
EmplaceBackReturn(after) == IteratorAt(after, after.size_ - 1)

EmplaceBackDone(x, pos, arg, r) ==
    Outcome(x, r, Returned(Obs("EmplaceBack", x, x, pos, 0, arg, r.m), r,
                           EmplaceBackReturn(r.v)))

EmplaceBack(x, arg, k) ==
    /\ Idle /\ vec[x].alive /\ Fits(x)
    /\ EmplaceBackDone(x, vec[x].size_, arg, EmplaceBackOp(Start(k), vec[x], arg))

\* faulty variant: Emplace returns the position it was passed
EmplaceReturnPos(before, after, pos) == IteratorAt(before, pos)

\* Emplace: return begin() + pos_distance
EmplaceReturn(before, after, pos) == IteratorAt(after, pos)

EmplaceDone(op, x, pos, arg, r) ==
    Outcome(x, r, Returned(Obs(op, x, x, pos, 0, arg, r.m), r,
                           EmplaceReturn(vec[x], r.v, pos)))

Emplace(x, pos, arg, k) ==
    /\ Idle /\ vec[x].alive /\ Fits(x)
    /\ EmplaceDone("Emplace", x, pos, arg, EmplaceOp(Start(k), vec[x], pos, arg))

Insert(x, pos, arg, k) ==
    /\ Idle /\ vec[x].alive /\ Fits(x) /\ arg.kind # "val"
    /\ EmplaceDone("Insert", x, pos, arg, InsertOp(Start(k), vec[x], pos, arg))

\* Erase: return begin() + pos_distance
EraseReturn(after, pos) == IteratorAt(after, pos)

EraseDone(x, pos, r) ==
    Outcome(x, r, Returned(Obs("Erase", x, x, pos, 0, NoArg, r.m), r,
                           EraseReturn(r.v, pos)))

Erase(x, pos, k) ==
    /\ Idle /\ vec[x].alive
    /\ EraseDone(x, pos, EraseOp(Start(k), vec[x], pos))

PopBackDone(x, r) == Outcome(x, r, Obs("PopBack", x, x, 0, 0, NoArg, r.m))

PopBack(x) ==
    /\ Idle /\ vec[x].alive /\ vec[x].size_ > 0
    /\ PopBackDone(x, PopBackOp(Start(0), vec[x]))

\* the sizes a call may ask for, and the step of a call that throws (0: none)
Sizes == 0..MaxCap
Steps(n) == 0..n

\* the harness resets its counters, or makes one call of a member function
Next ==
    \/ ResetCounters
    \/ \E x \in VecIds : DefaultCtor(x)
    \/ \E x \in VecIds, n \in Sizes : \E k \in Steps(n) : SizedCtor(x, n, k)
    \/ \E x, y \in VecIds : \E k \in Steps(vec[y].size_) : CopyCtor(x, y, k)
    \/ \E x, y \in VecIds : MoveCtor(x, y)
    \/ \E x \in VecIds : Dtor(x)
    \/ \E x, y \in VecIds : \E k \in Steps(vec[y].size_) : CopyAssignment(x, y, k)
    \/ \E x, y \in VecIds : MoveAssignment(x, y)
    \/ \E x, y \in VecIds : Swap(x, y)
    \/ \E x \in VecIds, n \in Sizes : \E k \in Steps(vec[x].size_) : Reserve(x, n, k)
    \/ \E x \in VecIds, n \in Sizes : \E k \in Steps(n) : Resize(x, n, k)
    \/ \E x \in VecIds : \E k \in Steps(vec[x].size_ + 1), arg \in ArgsOf(vec[x]) :
          PushBack(x, arg, k)
    \/ \E x \in VecIds : \E k \in Steps(vec[x].size_ + 1), arg \in ArgsOf(vec[x]) :
          EmplaceBack(x, arg, k)
    \/ \E x \in VecIds : \E k \in Steps(vec[x].size_ + 1), pos \in 0..vec[x].size_,
                            arg \in ArgsOf(vec[x]) : Emplace(x, pos, arg, k)
    \/ \E x \in VecIds : \E k \in Steps(vec[x].size_ + 1), pos \in 0..vec[x].size_,
                            arg \in ArgsOf(vec[x]) : Insert(x, pos, arg, k)
    \/ \E x \in VecIds : \E pos \in 0..(vec[x].size_ - 1) :
          \E k \in Steps(vec[x].size_ - 1 - pos) : Erase(x, pos, k)
    \/ \E x \in VecIds : PopBack(x)

Spec == Init /\ [][Next]_vars

\* --------------------------------------------------------------- properties
\* what the harness compares: the vector the last call was made on, before and now
Inserts == {"PushBack", "EmplaceBack", "Emplace", "Insert"}
Pre == last.was[last.x]
Now == vec[last.x]

\* the element values of vector v in heap h, first to last
ElemsOf(v, h) == [i \in 1..v.size_ |-> h[Buf(v)].slots[i]]
Before == ElemsOf(Pre, last.heap)
After == ElemsOf(Now, mem)

\* the number of constructed objects in the blocks of heap h
LiveCount(h) ==
    Cardinality({bi \in Blocks \X (1..(MaxCap + 1)) :
                    bi[2] \in DOMAIN h[bi[1]].slots /\ IsObj(h[bi[1]].slots[bi[2]])})

\* the last call left every vector and the heap as they were
Untouched == vec = last.was /\ mem = last.heap

\* the last call had to reallocate: an insertion at full capacity, or a Reserve
\* beyond the capacity
Growing ==
    \/ last.op \in Inserts /\ Cap(Pre) = Pre.size_
    \/ last.op = "Reserve" /\ last.n > Cap(Pre)

Max(a, b) == IF a >= b THEN a ELSE b

\* the storage of a vector: capacity_ slots of its own block, of which the first
\* size_ hold objects and the rest are raw
WellFormed(v, h) ==
    v.alive =>
        /\ v.size_ <= Cap(v)
        /\ (Cap(v) = 0) <=> (Buf(v) = Null)
        /\ Cap(v) > 0 =>
            /\ h[Buf(v)].used
            /\ Len(h[Buf(v)].slots) = Cap(v)
            /\ \A i \in 1..Cap(v) : IsObj(h[Buf(v)].slots[i]) <=> i <= v.size_

\* C1: after any sequence of public operations, every vector has Size() <=
\* Capacity(), a constructed element in every slot [0, Size()) of its block, and
\* no constructed element in any slot [Size(), Capacity()).
C1_SizeWithinCapacityAndLiveness ==
    /\ \A x \in VecIds : WellFormed(vec[x], mem)
    /\ ~last.bad

\* C1's case: a call that completed left a vector with elements and spare slots
C1_Witness ==
    /\ last.op = "Erase" /\ ~last.thrown
    /\ Pre.size_ = 3
    /\ Now.size_ = 2 /\ Cap(Now) = 4

\* C2: when the construction of the new element throws in PushBack, EmplaceBack,
\* Emplace or Insert, the vector is exactly as before the call (size, capacity,
\* block, element values), whether the capacity was exhausted or not and wherever
\* the position is.
C2_NewElementThrowLeavesVector ==
    (last.op \in Inserts /\ last.thrown /\ last.site = "new_element") =>
        /\ Untouched
        /\ After = Before
        /\ ~last.bad

\* C2's case: an Emplace before end() with spare capacity whose new element threw
C2_Witness ==
    /\ last.op = "Emplace" /\ last.thrown /\ last.site = "new_element"
    /\ Pre.size_ < Cap(Pre)
    /\ last.pos < Pre.size_

\* C3: for a type relocated by copy, when the copy of an existing element throws
\* during the relocation of Reserve, PushBack, EmplaceBack, Emplace or Insert, the
\* exception propagates and the vector is exactly as before the call.
C3_CopyRelocationThrowLeavesVector ==
    (/\ last.op \in Inserts \cup {"Reserve"}
     /\ ~UseMove
     /\ last.thrown /\ last.site = "relocate") =>
        /\ Untouched
        /\ Now.size_ = Pre.size_ /\ Now.data_ = Pre.data_
        /\ After = Before
        /\ ~last.bad

\* C3's case: an Emplace in the middle of a full vector whose prefix was copied
\* and whose suffix copy threw
C3_Witness ==
    /\ last.op = "Emplace" /\ last.thrown /\ last.site = "relocate"
    /\ ~UseMove
    /\ Pre.size_ = 2 /\ last.pos = 1 /\ last.at = 2

\* C4: when a reallocating call fails, every object it constructed in the new
\* block is destroyed before the block is released, so that nothing is left
\* constructed in released storage and the number of live objects is as before.
C4_GrowthFailureDestroysNewBlock ==
    (Growing /\ last.thrown) =>
        /\ last.leaked = 0
        /\ last.cnt.dtor = last.cnt.copy + last.cnt.move + last.cnt.val + last.cnt.def
        /\ LiveCount(mem) + last.leaked = LiveCount(last.heap)

\* C5: an insertion that succeeds at Size() == Capacity() == c makes the capacity
\* max(1, 2c), one with spare capacity leaves the capacity alone, and every element
\* keeps its value at its index, or at index + 1 from the insertion position on.
C5_GrowthDoublesAndKeepsValues ==
    (last.op \in Inserts /\ ~last.thrown) =>
        /\ Cap(Now) = IF Cap(Pre) = Pre.size_ THEN Max(1, 2 * Cap(Pre)) ELSE Cap(Pre)
        /\ Now.size_ = Pre.size_ + 1
        /\ \A i \in 1..Pre.size_ :
               After[IF i <= last.pos THEN i ELSE i + 1] = Before[i]

\* C5's case: the PushBack that takes a full vector of capacity 2 to capacity 4
C5_Witness ==
    /\ last.op = "PushBack" /\ ~last.thrown
    /\ Pre.size_ = 2 /\ Cap(Pre) = 2
    /\ Cap(Now) = 4

\* 1 when the argument of the last call is of one of the kinds, else 0
ArgIs(kinds) == IF last.arg.kind \in kinds THEN 1 ELSE 0

\* C6: a relocation of n elements makes n move constructions and no copy when T is
\* nothrow-movable or not copyable, and n copy constructions and no move otherwise;
\* it makes no assignment and n destructions, and the inserted element costs one
\* construction: a copy for an lvalue, a move for an rvalue.
C6_RelocationCounts ==
    (Growing /\ ~last.thrown) =>
        /\ last.cnt.move = (IF UseMove THEN Pre.size_ ELSE 0)
                            + ArgIs({"move", "self_move"})
        /\ last.cnt.copy = (IF UseMove THEN 0 ELSE Pre.size_)
                            + ArgIs({"copy", "self_copy"})
        /\ last.cnt.val = ArgIs({"val"})
        /\ last.cnt.def = 0
        /\ last.cnt.cassign = 0 /\ last.cnt.massign = 0
        /\ last.cnt.dtor = Pre.size_

\* C6's case: an rvalue inserted into a full vector of two elements relocated by copy
C6_Witness ==
    /\ last.op = "Insert" /\ ~last.thrown
    /\ Pre.size_ = 2 /\ Cap(Pre) = 2
    /\ ~UseMove
    /\ last.arg.kind = "move"

\* C7: an insertion whose argument refers to an element of the vector itself, by
\* copy or by move, with or without reallocation, reads the argument before its
\* slot is moved from, assigned to or destroyed; when it succeeds all Size() + 1
\* elements are constructed, and a copy inserts the value the element had.
C7_SelfInsertionSafe ==
    (last.op \in Inserts /\ last.arg.kind \in {"self_copy", "self_move"}) =>
        /\ last.argOk
        /\ ~last.bad
        /\ ~last.thrown =>
            /\ Now.size_ = Pre.size_ + 1
            /\ \A i \in 1..Now.size_ : IsObj(After[i])
            /\ last.arg.kind = "self_copy" => After[last.pos + 1] = Before[last.arg.idx + 1]

\* C7's case: a copy of an element inserted in place at or before that element,
\* in a vector whose elements differ
C7_Witness ==
    /\ last.op = "Insert" /\ ~last.thrown
    /\ last.arg.kind = "self_copy"
    /\ Pre.size_ = 2 /\ Cap(Pre) > 2
    /\ Before[1] # Before[2]
    /\ last.pos <= last.arg.idx

\* C8: when the construction of element k throws in Vector(n) or Vector(other),
\* k elements had been constructed, all k are destroyed once, the block is
\* released, the new vector does not exist and the source is unchanged.
C8_ConstructorRollsBack ==
    (last.op \in {"SizedCtor", "CopyCtor"} /\ last.thrown) =>
        /\ last.cnt.def + last.cnt.copy = last.at
        /\ last.cnt.dtor = last.at
        /\ last.leaked = 0
        /\ ~last.bad
        /\ ~Now.alive
        /\ Untouched

\* C8's case: the copy of the second of two elements threw in the copy constructor
C8_Witness ==
    /\ last.op = "CopyCtor" /\ last.thrown
    /\ last.was[last.y].size_ = 2
    /\ last.at = 1

\* C9 as stated: after v = std::move(rhs) with v and rhs distinct, v holds rhs's
\* former block, size and elements, and rhs is empty.
C9_MoveAssignLeavesSourceEmpty ==
    (last.op = "MoveAssign" /\ last.x # last.y) =>
        /\ Now = last.was[last.y]
        /\ After = ElemsOf(last.was[last.y], last.heap)
        /\ vec[last.y].alive /\ vec[last.y].size_ = 0

\* C9: after v = std::move(rhs) with v and rhs distinct, v holds rhs's former
\* block, size and elements and rhs holds v's former block, size and elements: no
\* element is constructed or destroyed, and rhs is empty only if v was.
C9_MoveAssignSwaps ==
    (last.op = "MoveAssign" /\ last.x # last.y) =>
        /\ Now = last.was[last.y]
        /\ After = ElemsOf(last.was[last.y], last.heap)
        /\ vec[last.y] = Pre
        /\ ElemsOf(vec[last.y], mem) = Before
        /\ mem = last.heap

\* C9's case: a move assignment between two distinct vectors that both had elements
C9_Witness ==
    /\ last.op = "MoveAssign" /\ last.x # last.y
    /\ Pre.size_ > 0
    /\ last.was[last.y].size_ > 0

\* C10: when the value construction of a new element throws in Resize(n) with
\* n > Size(), the vector has the size, the capacity and the element values it had,
\* for n <= Capacity() and for n > Capacity().
C10_ResizeThrowLeavesVector ==
    (/\ last.op = "Resize" /\ last.n > Pre.size_
     /\ last.thrown /\ last.site = "value_construct") =>
        /\ Now.size_ = Pre.size_
        /\ Cap(Now) = Cap(Pre)
        /\ After = Before

\* the value an insertion's argument has: that of the element it refers to, or its own
ArgValue == IF last.arg.kind \in {"self_copy", "self_move"}
            THEN Before[last.arg.idx + 1] ELSE last.arg.id

\* C11: a successful Insert or Emplace at p in a vector of n elements yields n + 1
\* elements, the argument's value at p, those before p unchanged and those from p
\* on one index later; it returns begin() + p of the current block, which is the
\* position passed exactly when the call did not reallocate.
C11_InsertPlacesAndReturns ==
    (last.op \in {"Insert", "Emplace"} /\ ~last.thrown) =>
        /\ Now.size_ = Pre.size_ + 1
        /\ last.ret = IteratorAt(Now, last.pos)
        /\ After[last.ret.off + 1] = ArgValue
        /\ \A j \in 0..(Pre.size_ - 1) :
               After[(IF j < last.pos THEN j ELSE j + 1) + 1] = Before[j + 1]
        /\ (last.ret = IteratorAt(Pre, last.pos)) <=> (Pre.size_ < Cap(Pre))

\* C11's case: an Insert in the middle of a full vector, which reallocates and
\* returns an iterator into the new block
C11_Witness ==
    /\ last.op = "Insert" /\ ~last.thrown
    /\ Pre.size_ = 2 /\ Cap(Pre) = 2 /\ last.pos = 1
    /\ Before[1] # Before[2]
    /\ last.ret.buf # Buf(Pre)

\* the other vector of the last call, before it, and its elements
Rhs == last.was[last.y]
RhsElems == ElemsOf(Rhs, last.heap)

\* the constructions the last call made
Constructions == last.cnt.def + last.cnt.val + last.cnt.copy + last.cnt.move

\* C12: a successful Erase at p in a vector of n elements yields n - 1 elements in
\* the same block with the same capacity, those before p unchanged and those after
\* p one index earlier, and returns begin() + p; it makes n - p - 1 assignments
\* (moves when T is nothrow-movable or not copyable, copies otherwise), one
\* destruction and no construction.
C12_EraseShiftsAndCounts ==
    (last.op = "Erase" /\ ~last.thrown) =>
        /\ Now.size_ = Pre.size_ - 1
        /\ Now.data_ = Pre.data_
        /\ \A j \in 0..(Pre.size_ - 1) :
               /\ j < last.pos => After[j + 1] = Before[j + 1]
               /\ j > last.pos => After[j] = Before[j + 1]
        /\ last.ret = IteratorAt(Pre, last.pos)
        /\ last.cnt.massign = IF UseMove THEN Pre.size_ - last.pos - 1 ELSE 0
        /\ last.cnt.cassign = IF UseMove THEN 0 ELSE Pre.size_ - last.pos - 1
        /\ last.cnt.dtor = 1
        /\ Constructions = 0

\* C12's case: the first of three differing elements erased from a vector whose
\* elements are shifted by copy assignment
C12_Witness ==
    /\ last.op = "Erase" /\ ~last.thrown
    /\ ~UseMove
    /\ Pre.size_ = 3 /\ last.pos = 0
    /\ Before[2] # Before[3]

\* C13: after a successful v = rhs, v has rhs's size and element values, rhs is
\* unchanged and shares no block with v; v's capacity is rhs's size when that
\* exceeded v's capacity and is unchanged otherwise; v = v leaves v unchanged.
C13_CopyAssignCopies ==
    (last.op = "CopyAssign" /\ ~last.thrown) =>
        /\ Now.size_ = Rhs.size_
        /\ After = RhsElems
        /\ vec[last.y].size_ = Rhs.size_ /\ Cap(vec[last.y]) = Cap(Rhs)
        /\ ElemsOf(vec[last.y], mem) = RhsElems
        /\ Cap(Now) = IF Rhs.size_ > Cap(Pre) THEN Rhs.size_ ELSE Cap(Pre)
        /\ last.x # last.y =>
            /\ vec[last.y] = Rhs
            /\ Buf(Now) = Null \/ Buf(Now) # Buf(Rhs)
        /\ last.x = last.y => Untouched

\* C13's case: a longer vector assigned from a shorter, non-empty one
C13_Witness ==
    /\ last.op = "CopyAssign" /\ ~last.thrown
    /\ last.x # last.y
    /\ Pre.size_ = 2 /\ Rhs.size_ = 1
    /\ Before[1] # RhsElems[1]

\* C14: when an element assignment throws in in-place copy assignment or in the
\* shift of Erase, the size and the capacity are unchanged and the block holds
\* objects in exactly the slots [0, Size()); in copy assignment the elements
\* before the one that threw hold rhs's values and the others their old values.
C14_AssignmentThrowKeepsValid ==
    (last.op \in {"CopyAssign", "Erase"} /\ last.thrown /\ last.site = "assign") =>
        /\ Now.size_ = Pre.size_
        /\ Now.data_ = Pre.data_
        /\ WellFormed(Now, mem)
        /\ ~last.bad
        /\ last.op = "CopyAssign" =>
            \A i \in 1..Pre.size_ :
                After[i] = IF i <= last.at THEN RhsElems[i] ELSE Before[i]

\* C14's case: the second element assignment threw in a copy assignment in place
\* between vectors whose first elements differ
C14_Witness ==
    /\ last.op = "CopyAssign" /\ last.thrown /\ last.site = "assign"
    /\ last.x # last.y
    /\ last.at = 1
    /\ Before[1] # RhsElems[1]

\* C15: a successful Reserve(n) leaves the size and the element values and makes
\* the capacity max(capacity, n): for n <= Capacity() nothing changes (block,
\* counters), and for n > Capacity() the capacity is n.
C15_ReserveExact ==
    (last.op = "Reserve" /\ ~last.thrown) =>
        /\ Now.size_ = Pre.size_
        /\ After = Before
        /\ Cap(Now) = Max(Cap(Pre), last.n)
        /\ last.n <= Cap(Pre) => (Untouched /\ last.cnt = ZeroCnt)

\* C15's case: Reserve(3) on a vector of capacity 2 that holds elements
C15_Witness ==
    /\ last.op = "Reserve" /\ ~last.thrown
    /\ Cap(Pre) = 2 /\ Pre.size_ = 2 /\ last.n = 3
    /\ Cap(Now) = 3

\* C16: a successful Resize(n) on a vector of size s and capacity c yields size n
\* with the elements below min(s, n) unchanged: for n > s it value-constructs n - s
\* elements at [s, n) and the capacity is max(c, n); for n <= s it destroys s - n
\* elements and the capacity stays c.
C16_ResizeTo ==
    (last.op = "Resize" /\ ~last.thrown) =>
        /\ Now.size_ = last.n
        /\ \A i \in 1..Pre.size_ : i <= last.n => After[i] = Before[i]
        /\ last.n > Pre.size_ =>
            /\ last.cnt.def = last.n - Pre.size_
            /\ \A i \in (Pre.size_ + 1)..last.n : After[i] = DefaultId
            /\ Cap(Now) = Max(Cap(Pre), last.n)
        /\ last.n <= Pre.size_ =>
            /\ last.cnt.dtor = Pre.size_ - last.n
            /\ Constructions = 0
            /\ Now.data_ = Pre.data_

\* C16's case: a vector of three elements resized to one
C16_Witness ==
    /\ last.op = "Resize" /\ ~last.thrown
    /\ Pre.size_ = 3 /\ last.n = 1
    /\ Before[1] = MAGIC

\* C17: Vector(n) has size n and capacity n with n value-initialised elements, made
\* by n default constructions; Vector() has size 0 and capacity 0 and allocates
\* nothing.
C17_SizedAndDefaultCtor ==
    /\ (last.op = "SizedCtor" /\ ~last.thrown) =>
        /\ Now.alive
        /\ Now.size_ = last.n /\ Cap(Now) = last.n
        /\ \A i \in 1..last.n : After[i] = DefaultId
        /\ last.cnt = [ZeroCnt EXCEPT !.def = last.n]
        /\ WellFormed(Now, mem)
    /\ last.op = "DefaultCtor" =>
        /\ Now.alive
        /\ Now.size_ = 0 /\ Cap(Now) = 0 /\ Buf(Now) = Null
        /\ mem = last.heap

\* C17's case: Vector(3)
C17_Witness ==
    /\ last.op = "SizedCtor" /\ ~last.thrown
    /\ last.n = 3 /\ Now.size_ = 3

\* the calls that hand a block from one vector to another
Handovers == {"MoveCtor", "MoveAssign", "Swap"}

\* C18: a copy c of v has v's size as its size and as its capacity, v's element
\* values, and no block in common with v; whatever a call then does to one vector,
\* the other keeps its block and its element values.
C18_CopyIsIndependent ==
    /\ (last.op = "CopyCtor" /\ ~last.thrown) =>
        /\ Now.alive
        /\ Now.size_ = Rhs.size_ /\ Cap(Now) = Rhs.size_
        /\ After = RhsElems
        /\ Buf(Now) = Null \/ Buf(Now) # Buf(Rhs)
    /\ \A x, z \in VecIds :
        (x # z /\ vec[x].alive /\ vec[z].alive) =>
            Buf(vec[x]) = Null \/ Buf(vec[x]) # Buf(vec[z])
    /\ \A z \in VecIds :
        (z # last.x /\ last.op \notin Handovers) =>
            /\ vec[z] = last.was[z]
            /\ ElemsOf(vec[z], mem) = ElemsOf(last.was[z], last.heap)

\* C18's case: a copy of a vector that has spare capacity
C18_Witness ==
    /\ last.op = "CopyCtor" /\ ~last.thrown
    /\ Rhs.size_ = 1 /\ Cap(Rhs) = 2
    /\ Cap(Now) = 1

\* C19: Vector d(std::move(v)) gives d the block, size, capacity and elements of v,
\* constructs, moves, copies and destroys no element, and leaves v with size 0 and
\* capacity 0.
C19_MoveCtorTransfers ==
    last.op = "MoveCtor" =>
        /\ Now.alive
        /\ Now.data_ = Rhs.data_ /\ Now.size_ = Rhs.size_
        /\ After = RhsElems
        /\ mem = last.heap
        /\ last.cnt = ZeroCnt
        /\ vec[last.y].alive
        /\ vec[last.y].size_ = 0 /\ Cap(vec[last.y]) = 0 /\ Buf(vec[last.y]) = Null

\* C19's case: a move construction from a vector that holds elements
C19_Witness ==
    /\ last.op = "MoveCtor"
    /\ Rhs.size_ = 2

\* C20: Reserve, Resize, PushBack, EmplaceBack, PopBack, Insert, Emplace, Erase and
\* copy assignment leave the capacity of the vector at least what it was, whether
\* they succeed or throw.
C20_CapacityNeverShrinks ==
    (last.op \in Inserts \cup {"Reserve", "Resize", "PopBack", "Erase", "CopyAssign"}) =>
        Cap(Now) >= Cap(Pre)

\* C20's case: a copy assignment from a shorter vector, which keeps the capacity
C20_Witness ==
    /\ last.op = "CopyAssign" /\ ~last.thrown
    /\ last.x # last.y
    /\ Rhs.size_ < Cap(Pre)
    /\ Cap(Now) = Cap(Pre)

\* the live elements of the vectors that exist
Held == vec["v"].size_ + vec["w"].size_

\* C21: the destructor of a vector destroys each of its Size() elements once and
\* releases its block once; every call that succeeds changes the number of live
\* objects by its constructions less its destructions, and every live object is an
\* element of a vector, so that no object and no block is left once every vector is
\* destroyed; Reserve on an empty vector constructs no element.
C21_DestructorBalances ==
    /\ last.op = "Dtor" =>
        /\ last.cnt.dtor = Pre.size_
        /\ Constructions = 0
        /\ last.leaked = 0 /\ ~last.bad
        /\ ~Now.alive
        /\ \A b \in Blocks :
              mem[b] = IF b = Buf(Pre) THEN FreeBlock ELSE last.heap[b]
        /\ Buf(Pre) # Null => last.heap[Buf(Pre)].used
    /\ ~last.thrown =>
          Constructions - last.cnt.dtor = LiveCount(mem) - LiveCount(last.heap)
    /\ LiveCount(mem) = Held
    /\ (\A x \in VecIds : ~vec[x].alive) => \A b \in Blocks : mem[b] = FreeBlock
    /\ (last.op = "Reserve" /\ Pre.size_ = 0) =>
          Constructions = 0 /\ last.cnt.dtor = 0

\* C21's case: the last vector that exists is destroyed while it holds two elements
C21_Witness ==
    /\ last.op = "Dtor"
    /\ Pre.size_ = 2
    /\ \A x \in VecIds : ~vec[x].alive

\* C22: PopBack on a vector of n > 0 elements destroys the element at index n - 1
\* and nothing else, makes the size n - 1, and leaves the capacity, the block and
\* the elements before n - 1 as they were.
C22_PopBackDropsLast ==
    last.op = "PopBack" =>
        /\ ~last.thrown /\ ~last.bad
        /\ last.cnt = [ZeroCnt EXCEPT !.dtor = 1]
        /\ Now.size_ = Pre.size_ - 1
        /\ Now.data_ = Pre.data_
        /\ After = SubSeq(Before, 1, Pre.size_ - 1)
        /\ mem = [last.heap EXCEPT ![Buf(Pre)].slots[Pre.size_] = Raw]
        /\ \A y \in VecIds \ {last.x} : vec[y] = last.was[y]
        /\ LiveCount(mem) = LiveCount(last.heap) - 1

\* C22's case: PopBack after one PushBack into an empty vector, which leaves size
\* 0, capacity 1 and no live element
C22_Witness ==
    /\ last.op = "PopBack"
    /\ Pre.size_ = 1 /\ Cap(Pre) = 1
    /\ Now.size_ = 0 /\ Cap(Now) = 1
    /\ LiveCount(mem) = 0

\* the insertion of the last call had to reallocate
GrowingInsert == last.op \in Inserts /\ Cap(Pre) = Pre.size_

\* the relocations that precede the one into index i of the new block, the new
\* element being at last.pos: the prefix front to back, then the suffix
RelocatedBefore(i) == IF i < last.pos THEN i ELSE i - 1

\* the elements that the relocation which threw at index i of the new block had
\* built, and destroys again
RolledBack(i) == IF i < last.pos THEN i ELSE i - last.pos - 1

\* C23: an insertion at full capacity allocates the new block, constructs the new
\* element in it, relocates the prefix and then the suffix, destroys the old
\* elements, and swaps the blocks and increments the size. When the construction
\* of the new element throws, nothing has been constructed, moved from or
\* destroyed; when a relocation throws, the new element and the relocations
\* before it in that order are what has been constructed, and no old element is
\* destroyed; the block pointer and the size change only when nothing threw.
C23_GrowthOrder ==
    GrowingInsert =>
        /\ last.argOk
        /\ (last.thrown /\ last.site = "new_element") =>
              /\ Constructions = 0 /\ last.cnt.dtor = 0
              /\ Untouched
        /\ (last.thrown /\ last.site = "relocate") =>
              /\ last.at # last.pos
              /\ Constructions = 1 + RelocatedBefore(last.at)
              /\ last.cnt.dtor = RolledBack(last.at)
              /\ Now = Pre
              /\ \A i \in 1..Pre.size_ :
                    IsObj(mem[Buf(Pre)].slots[i])
        /\ last.thrown => last.site \in {"new_element", "relocate"}
        /\ last.thrown => Now.data_ = Pre.data_ /\ Now.size_ = Pre.size_
        /\ ~last.thrown =>
              /\ Constructions = 1 + Pre.size_
              /\ last.cnt.dtor = Pre.size_
              /\ Buf(Now) # Buf(Pre) /\ Buf(Now) # Null
              /\ Now.size_ = Pre.size_ + 1
              /\ Buf(Pre) # Null => ~mem[Buf(Pre)].used

\* C23's case: an Emplace in the middle of a full vector whose relocation of the
\* suffix throws, after the new element and the prefix were constructed
C23_Witness ==
    /\ last.op = "Insert" /\ GrowingInsert
    /\ Pre.size_ = 2 /\ last.pos = 1
    /\ last.thrown /\ last.site = "relocate" /\ last.at = 2
    /\ Constructions = 2 /\ last.cnt.dtor = 0

\* the last call was an Emplace or Insert before end() into spare capacity
ShiftingInsert ==
    /\ last.op \in {"Emplace", "Insert"}
    /\ Pre.size_ < Cap(Pre)
    /\ last.pos < Pre.size_

\* C24: a successful Emplace or Insert at p < n into a vector of n elements with
\* spare capacity makes one temporary from the arguments, one move construction
\* (the last element into slot n), n - p move assignments, no copy assignment and
\* one destruction (the temporary), whether or not T's move constructor can throw;
\* the only copy construction is that of the temporary from an lvalue.
C24_ShiftCounts ==
    (ShiftingInsert /\ ~last.thrown) =>
        /\ Constructions = 2
        /\ last.cnt.move = 1 + ArgIs({"move", "self_move"})
        /\ last.cnt.copy = ArgIs({"copy", "self_copy"})
        /\ last.cnt.val = ArgIs({"val"})
        /\ last.cnt.def = 0
        /\ last.cnt.massign = Pre.size_ - last.pos
        /\ last.cnt.cassign = 0
        /\ last.cnt.dtor = 1
        /\ LiveCount(mem) = LiveCount(last.heap) + 1

\* C24's case: Insert of an lvalue at the front of two elements of a type whose
\* move constructor may throw
C24_Witness ==
    /\ ShiftingInsert /\ ~last.thrown
    /\ last.op = "Insert" /\ last.arg.kind = "copy"
    /\ ~T.nothrow_move
    /\ Pre.size_ = 2 /\ last.pos = 0
    /\ last.cnt.massign = 2

\* C25 as stated: in that case the trailing slot is filled with a copy of the last
\* element, which is not moved from.
C25_TailIsCopied ==
    (ShiftingInsert /\ ~last.thrown) =>
        /\ last.cnt.copy = 1 + ArgIs({"copy", "self_copy"})
        /\ last.cnt.move = ArgIs({"move", "self_move"})

\* C25: in that case the trailing slot is filled by a move construction from the
\* last element, after the temporary is built and before the tail is shifted by
\* backward move assignment and the temporary is move-assigned into the slot at
\* pos; a throw from that construction leaves the vector as it was, with the
\* temporary destroyed and nothing assigned.
C25_TailIsMoved ==
    ShiftingInsert =>
        /\ ~last.thrown =>
              /\ last.cnt.move = 1 + ArgIs({"move", "self_move"})
              /\ last.cnt.copy = ArgIs({"copy", "self_copy"})
              /\ After[Pre.size_ + 1] = Before[Pre.size_]
              /\ After[last.pos + 1] = ArgValue
              /\ mem[Stack] = last.heap[Stack]
        /\ (last.thrown /\ last.site = "tail") =>
              /\ ~T.nothrow_move
              /\ Constructions = 1
              /\ last.cnt.massign = 0 /\ last.cnt.cassign = 0
              /\ last.cnt.dtor = 1
              /\ last.at = Pre.size_
              /\ Untouched
        /\ last.thrown => last.site \in {"new_element", "tail"}

\* C25's case: an Emplace before end() into spare capacity of a type that can be
\* copied, which moves the last element into the trailing slot and copies nothing
C25_Witness ==
    /\ ShiftingInsert /\ ~last.thrown
    /\ T.copyable
    /\ last.arg.kind = "val"
    /\ Pre.size_ = 2 /\ last.pos = 1
    /\ last.cnt.move = 1 /\ last.cnt.copy = 0

Min(a, b) == IF a <= b THEN a ELSE b

\* the last call was a copy assignment between two vectors that worked in place
AssignInPlace ==
    /\ last.op = "CopyAssign"
    /\ last.x # last.y
    /\ Rhs.size_ <= Cap(Pre)

StartIn(h, k) == [Start(k) EXCEPT !.mem = h]

\* what a call leaves behind: the vector, the heap, the counters, whether it threw
Effect(r) == <<r.v, r.m.mem, r.m.cnt, r.m.thrown>>

\* the last call inserted at end()
AppendingInsert == last.op \in Inserts /\ last.pos = Pre.size_

\* C27: from every reachable vector and for every argument, Emplace(end(), x),
\* EmplaceBack(x) and PushBack(x) leave the same size, capacity, contents and
\* counts of constructions, moves, copies, assignments and destructions, also when
\* a step throws; with spare capacity the new element is constructed in the
\* trailing slot and no other slot is written; the iterator or reference that is
\* returned refers to index old Size().
C27_AppendsAgree ==
    AppendingInsert =>
        /\ \A k \in Steps(Pre.size_ + 1) :
              /\ Effect(EmplaceOp(StartIn(last.heap, k), Pre, Pre.size_, last.arg))
                    = Effect(EmplaceBackOp(StartIn(last.heap, k), Pre, last.arg))
              /\ Effect(EmplaceBackOp(StartIn(last.heap, k), Pre, last.arg))
                    = Effect(PushBackOp(StartIn(last.heap, k), Pre, last.arg))
        /\ \E k \in Steps(Pre.size_ + 1) :
              Effect(EmplaceOp(StartIn(last.heap, k), Pre, Pre.size_, last.arg))
                  = <<Now, mem, last.cnt, last.thrown>>
        /\ (~last.thrown /\ Pre.size_ < Cap(Pre)) =>
              /\ last.cnt = [ZeroCnt EXCEPT ![IF last.arg.kind \in {"copy", "self_copy"}
                                              THEN "copy"
                                              ELSE IF last.arg.kind = "val" THEN "val"
                                              ELSE "move"] = 1]
              /\ Now.data_ = Pre.data_
              /\ mem = [last.heap EXCEPT ![Buf(Pre)].slots[Pre.size_ + 1] = ArgValue]
        /\ ~last.thrown =>
              /\ Now.size_ = Pre.size_ + 1
              /\ After[Pre.size_ + 1] = ArgValue
              /\ last.ret = IF last.op = "PushBack" THEN NoIter
                            ELSE IteratorAt(Now, Pre.size_)

\* C27's case: an Emplace at end() into spare capacity, which PushBack and
\* EmplaceBack match
C27_Witness ==
    /\ AppendingInsert /\ last.op = "Emplace" /\ ~last.thrown
    /\ Pre.size_ = 1 /\ Cap(Pre) = 2
    /\ last.ret = IteratorAt(Pre, 1)
    /\ Effect(PushBackOp(StartIn(last.heap, 0), Pre, last.arg))
          = <<Now, mem, last.cnt, FALSE>>

\* a RawMemory whose pointer is null exactly when its capacity is 0
NullIffEmpty(r) == (r.buffer_ = Null) <=> (r.capacity_ = 0)

\* C28: every RawMemory has a null buffer pointer if and only if its capacity is
\* 0: those the vectors hold, the one RawMemory(n) builds for any n (Allocate(0)
\* returns null and allocates nothing), and both operands after a move
\* construction, a move assignment and a Swap.
C28_NullIffCapacityZero ==
    /\ \A x \in VecIds : NullIffEmpty(vec[x].data_)
    /\ \A n \in Sizes :
          /\ NullIffEmpty(RawMemoryCtor(Quiet, n))
          /\ RawMemoryCtor(Quiet, n).capacity_ = n
          /\ (n = 0) <=> (Allocate(Quiet, n).mem = mem)
          /\ n # 0 => /\ ~mem[AllocAddr(Quiet, n)].used
                      /\ Allocate(Quiet, n).mem[AllocAddr(Quiet, n)].used
    /\ \A y \in VecIds :
          /\ NullIffEmpty(RawMoveCtor(vec[y].data_).a)
          /\ NullIffEmpty(RawMoveCtor(vec[y].data_).b)
    /\ \A x, y \in VecIds :
          /\ NullIffEmpty(RawMoveAssign(vec[x].data_, vec[y].data_).a)
          /\ NullIffEmpty(RawMoveAssign(vec[x].data_, vec[y].data_).b)
          /\ NullIffEmpty(RawSwap(vec[x].data_, vec[y].data_).a)
          /\ NullIffEmpty(RawSwap(vec[x].data_, vec[y].data_).b)

\* C28's case: a vector with a block and no element is moved from, and is left
\* with a null pointer and capacity 0
C28_Witness ==
    /\ last.op = "MoveCtor"
    /\ Rhs.size_ = 0 /\ Cap(Rhs) = 2 /\ Buf(Rhs) # Null
    /\ Buf(vec[last.y]) = Null /\ Cap(vec[last.y]) = 0
    /\ Cap(Now) = 2

\* C29 as stated: after a move construction or a move assignment of RawMemory the
\* target holds the donor's block and the donor has a null pointer and capacity
\* 0, whatever the target held.
C29_MoveLeavesDonorEmpty ==
    \A x, y \in VecIds :
        /\ RawMoveCtor(vec[y].data_) = [a |-> vec[y].data_, b |-> EmptyRaw]
        /\ x # y =>
              RawMoveAssign(vec[x].data_, vec[y].data_)
                  = [a |-> vec[y].data_, b |-> EmptyRaw]

\* C29: a move construction of RawMemory gives the target the donor's block and
\* capacity and leaves the donor with a null pointer and capacity 0; a move
\* assignment exchanges the two, so that the target holds the donor's block and
\* the donor holds what the target held, and is empty only if the target was.
C29_MoveCtorEmptiesMoveAssignSwaps ==
    /\ \A x, y \in VecIds :
          /\ RawMoveCtor(vec[y].data_) = [a |-> vec[y].data_, b |-> EmptyRaw]
          /\ RawMoveAssign(vec[x].data_, vec[y].data_)
                = [a |-> vec[y].data_, b |-> vec[x].data_]
          /\ (RawMoveAssign(vec[x].data_, vec[y].data_).b = EmptyRaw)
                <=> (Buf(vec[x]) = Null)
    /\ last.op = "MoveCtor" =>
          /\ Now.data_ = Rhs.data_
          /\ vec[last.y].data_ = EmptyRaw

\* C29's case: two vectors that both hold a block, where a move assignment of one
\* RawMemory to the other leaves the donor with the target's block
C29_Witness ==
    /\ vec["v"].alive /\ vec["w"].alive
    /\ Buf(vec["v"]) # Null /\ Buf(vec["w"]) # Null
    /\ RawMoveAssign(vec["v"].data_, vec["w"].data_).b = vec["v"].data_
    /\ RawMoveCtor(vec["w"].data_).b = EmptyRaw

\* the vectors that exist and hold block b, among the vectors f
Owners(f, b) == {x \in VecIds : f[x].alive /\ Buf(f[x]) = b}

\* C30: after any sequence of calls, throwing ones included, every allocated block
\* is the block of exactly one vector and no two vectors share a block; the block
\* of a vector is allocated, and holds that vector's elements; a block that a call
\* released was the block of one vector before and is the block of none now; no
\* call frees a block twice, and a destroyed vector holds no block. A block that
\* is released with an object in it is one that a throwing call allocated and no
\* vector held, and that call releases no block of a vector.
C30_BlocksOwnedOnce ==
    /\ \A b \in Blocks :
          /\ Cardinality(Owners(vec, b)) <= 1
          /\ mem[b].used <=> Owners(vec, b) # {}
          /\ ~mem[b].used => mem[b] = FreeBlock
          /\ (last.heap[b].used /\ ~mem[b].used) =>
                Cardinality(Owners(last.was, b)) = 1
    /\ \A x \in VecIds :
          /\ (vec[x].alive /\ Buf(vec[x]) # Null) =>
                /\ Buf(vec[x]) \in Blocks
                /\ mem[Buf(vec[x])].used
                /\ Objects(mem[Buf(vec[x])].slots) = vec[x].size_
          /\ ~vec[x].alive => vec[x].data_ = EmptyRaw
    /\ ~last.bad
    /\ last.leaked > 0 =>
          /\ last.thrown
          /\ \A b \in Blocks : last.heap[b].used => mem[b].used

\* C30's case: an insertion into a full vector throws while it relocates, beside a
\* second vector that holds a block; the new block is released and both vectors
\* keep theirs
C30_Witness ==
    /\ last.op \in Inserts /\ last.thrown /\ last.site = "relocate"
    /\ vec["v"].alive /\ vec["w"].alive
    /\ Buf(vec["v"]) # Null /\ Buf(vec["w"]) # Null
    /\ Cardinality({b \in Blocks : mem[b].used}) = 2

====
